---- MODULE Spec2Model ----
(***************************************************************************)
(* FenceWise backend (src/backend/server.py): a FastAPI application over   *)
(* a MongoDB document store.  The state is the store's five collections,   *)
(* the wall clock, the bearer tokens issued so far and the requests that   *)
(* are in flight.  A handler is a coroutine: other requests run only while *)
(* it awaits a store operation, so every handler is cut into one step per  *)
(* awaited store operation, the code that follows the operation up to the  *)
(* next await being part of the step.  A bearer-protected request takes    *)
(* three kinds of step.  The first is the dependency get_current_user up to*)
(* its await: jwt.decode, which reads the clock, and ObjectId(sub).  The   *)
(* second is the dependency's users.find_one with the code that follows it *)
(* up to the handler's own first store operation: the 401 of a user not    *)
(* found, the role test, the ObjectId() of a path parameter, the document a*)
(* create builds and stamps with the time of this step.  The handler's own *)
(* store operations are the later steps.  The clock and the store may move *)
(* on between any two steps of a request.                                  *)
(*                                                                         *)
(* Documents keep the fields the handlers read or decide on.  Of a job's   *)
(* pass-through strings client_name stands for address, contact and        *)
(* job_type as well (required str on create, Optional on update), and      *)
(* signature_url, image_url and the photo payload are left out.            *)
(***************************************************************************)
EXTENDS Integers, Sequences, FiniteSets, TLC

\* ---------------------------------------------------------------- bounds
MaxNewUsers == 2   \* accounts registered after the initial state
MaxJobs == 1       \* job documents ever inserted
MaxSheets == 2     \* timesheet documents ever inserted
MaxMsgs == 3       \* message documents ever inserted
MaxPhotos == 2     \* photo documents ever inserted
MaxTime == 1       \* unit clock ticks within one token lifetime
MaxWeeks == 1      \* clock jumps of one token lifetime
MaxTokens == 6     \* tokens issued
MaxDocs == 2       \* documents ever inserted where every endpoint is served
MaxOddSheets == 1  \* timesheet documents when one of odd clock strings arrives

\* concurrent requests in flight
Slots == {1, 2}

\* ------------------------------------------------------- program constants
\* server.py:30
ACCESS_TOKEN_EXPIRE_MINUTES == 60 * 24 * 7
\* to_list(1000) of every list endpoint (server.py:317, 405, 464, 499, 515)
ListCap == 1000

\* Python's None in a str-typed field, and in a datetime-typed field
None == "<None>"
NoTime == -1
\* find_one's None
NoDoc == [_id |-> None]

\* the literal broadcast recipient (server.py:452)
Team == "team"

VARIABLES users, jobs, timesheets, messages, photos, oids, now, tokens, req, last

store == <<users, jobs, timesheets, messages, photos>>
vars == <<users, jobs, timesheets, messages, photos, oids, now, tokens, req, last>>

\* ------------------------------------------------------------ ObjectIds
\* The n-th ObjectId a process generates, as its string form.
Oid(n) == ToString(n)
\* bson.ObjectId.is_valid: the 24-hex-digit strings.  Every Oid(n), generated
\* yet or not, is one, and so is FreeOid, which no document ever has; of the
\* ids a request names only BadOid is not.
FreeOid == "0"
BadOid == "zz"
IsValidOid(v) == v # BadOid
\* insert_one gives the document the next generated _id
NewOid == Oid(oids + 1)

\* ------------------------------------------------------ store operations
\* Collection.find(query): the matching documents in natural order
find(coll, Match(_)) == SelectSeq(coll, Match)

\* Collection.find_one(query)
find_one(coll, Match(_)) ==
    LET m == SelectSeq(coll, Match) IN IF m = <<>> THEN NoDoc ELSE m[1]

\* {"$set": upd} on one document
SetFields(doc, upd) ==
    [f \in DOMAIN doc |-> IF f \in DOMAIN upd THEN upd[f] ELSE doc[f]]

\* index of the first matching document, 0 when there is none
FirstIndex(coll, Match(_)) ==
    IF \E i \in 1..Len(coll) : Match(coll[i])
    THEN CHOOSE i \in 1..Len(coll) :
            Match(coll[i]) /\ \A j \in 1..(i - 1) : ~Match(coll[j])
    ELSE 0

\* Collection.update_one(query, {"$set": upd}): the first match is updated;
\* modified_count counts it only when the update changed it.
update_one(coll, Match(_), upd) ==
    LET i == FirstIndex(coll, Match) IN
    IF i = 0
    THEN [coll |-> coll, matched_count |-> 0, modified_count |-> 0]
    ELSE LET d == SetFields(coll[i], upd) IN
         [coll |-> [coll EXCEPT ![i] = d],
          matched_count |-> 1,
          modified_count |-> IF d = coll[i] THEN 0 ELSE 1]

\* Collection.delete_one(query)
delete_one(coll, Match(_)) ==
    LET i == FirstIndex(coll, Match) IN
    IF i = 0
    THEN [coll |-> coll, deleted_count |-> 0]
    ELSE [coll |-> SubSeq(coll, 1, i - 1) \o SubSeq(coll, i + 1, Len(coll)),
          deleted_count |-> 1]

\* cursor.to_list(n)
to_list(s, n) == SubSeq(s, 1, IF Len(s) < n THEN Len(s) ELSE n)

\* ------------------------------------------------------------ responses
NoResp == [rq |-> [op |-> "none"], status |-> 0, body |-> None]
Idle == [op |-> "idle"]

\* raise HTTPException(status_code, detail)
HTTPException(status_code, detail) == [status |-> status_code, body |-> detail]
\* an exception no handler catches: FastAPI answers 500
InternalError == [status |-> 500, body |-> "Internal Server Error"]
OK(body) == [status |-> 200, body |-> body]

\* ----------------------------------------------------- credential service
\* passlib bcrypt: an opaque hash that verifies exactly its own password
hash_password(password) == <<"bcrypt", password>>
verify_password(plain_password, hashed_password) ==
    hashed_password = <<"bcrypt", plain_password>>

\* jwt.encode of {"sub": user id, "exp": now + 7 days} under SECRET_KEY
create_access_token(sub) ==
    [sub |-> sub, exp |-> now + ACCESS_TOKEN_EXPIRE_MINUTES, sig |-> "SECRET_KEY"]
\* a token signed with another key
ForgedToken == [sub |-> Oid(1), exp |-> 1000000, sig |-> "other"]
\* a token under SECRET_KEY whose sub is no ObjectId string
BadSubToken == [sub |-> BadOid, exp |-> 1000000, sig |-> "SECRET_KEY"]
\* a token under SECRET_KEY whose sub is the id of no user
NoUserToken == [sub |-> FreeOid, exp |-> 1000000, sig |-> "SECRET_KEY"]

\* jwt.decode: the signature verifies and exp is still ahead
jwt_decode_ok(token) == token.sig = "SECRET_KEY" /\ now < token.exp

UserResponse(user) ==
    [id |-> user._id, name |-> user.name, email |-> user.email,
     role |-> user.role, created_at |-> user.created_at]

\* a request whose dependency has resolved carries current_user
Authed(rq, current_user) == rq @@ [current_user |-> current_user]
Resolved(rq) == "current_user" \in DOMAIN rq

\* lines 198-200 refusing a suspended user (they do not)
get_current_user_find_active(token) ==
    LET user == find_one(users, LAMBDA u : u._id = token.sub) IN
    IF user = NoDoc \/ ~user.active THEN HTTPException(401, "User not found")
    ELSE [status |-> 200, body |-> user]

\* lines 198-202: the awaited users.find_one and the 401 of a user not found
get_current_user_find(token) ==
    LET user == find_one(users, LAMBDA u : u._id = token.sub) IN
    IF user = NoDoc THEN HTTPException(401, "User not found")
    ELSE [status |-> 200, body |-> user]

\* role predicates the handlers repeat inline
IsAdmin(user) == user.role = "admin"
IsElevated(user) == user.role \in {"admin", "supervisor"}

\* ------------------------------------------------------------ initial state
\* The store of a deployment on which four accounts have registered, one per
\* role and a second worker, each holding the token its registration returned.
SeedUser(n, name, email, role) ==
    [_id |-> Oid(n), name |-> name, email |-> email,
     password |-> hash_password("pw"), role |-> role,
     created_at |-> 0, active |-> TRUE]

SeedUsers ==
    << SeedUser(1, "Ann", "ann@x", "admin"),
       SeedUser(2, "Sam", "sam@x", "supervisor"),
       SeedUser(3, "Wes", "wes@x", "worker"),
       SeedUser(4, "Wil", "wil@x", "worker") >>

SeedToken(n) == [sub |-> Oid(n), exp |-> ACCESS_TOKEN_EXPIRE_MINUTES, sig |-> "SECRET_KEY"]

Init ==
    /\ users = SeedUsers
    /\ jobs = <<>>
    /\ timesheets = <<>>
    /\ messages = <<>>
    /\ photos = <<>>
    /\ oids = Len(SeedUsers)
    /\ now = 0
    /\ tokens = {SeedToken(n) : n \in 1..Len(SeedUsers)}
    /\ req = [s \in Slots |-> Idle]
    /\ last = NoResp

\* a one-step handler answers
Answer(rq, r) == last' = [rq |-> rq, status |-> r.status, body |-> r.body]
\* a step of a longer handler finishes the request in slot s
Reply(s, rq, r) ==
    /\ last' = [rq |-> rq, status |-> r.status, body |-> r.body]
    /\ req' = [req EXCEPT ![s] = Idle]
Finish(s, r) == Reply(s, req[s], r)
\* a step of a longer handler leaves it awaiting its next store operation
Await(s, rq) ==
    /\ last' = NoResp
    /\ req' = [req EXCEPT ![s] = rq]

\* a request is taken up by the first idle slot
FreeSlot(s) == req[s] = Idle /\ \A r \in Slots : r < s => req[r] # Idle

\* documents inserted since the initial state, and inserts on their way
Inserted == oids - Len(SeedUsers) - (IF Len(messages) >= ListCap THEN ListCap ELSE 0)
Inserting ==
    Cardinality({s \in Slots :
        req[s].op \in {"register", "create_job", "create_timesheet",
                        "send_message", "upload_photo"}})
CanInsert(max) == Inserted + Inserting < max

\* the request in slot s awaits the dependency's users.find_one (line 198)
Decoded(s, op) == req[s].op = op /\ ~Resolved(req[s])
\* the handler of the request in slot s is running
Running(s, op) == req[s].op = op /\ Resolved(req[s])

\* lines 188-198, up to the await: a request rq arrives, jwt.decode verifies
\* the signature and reads the clock for exp, and ObjectId(user_id) is
\* evaluated for the find_one that is awaited next
get_current_user_decode(s, rq) ==
    /\ FreeSlot(s)
    /\ IF ~jwt_decode_ok(rq.token)
       THEN /\ Answer(rq, HTTPException(401, "Invalid authentication credentials"))
            /\ UNCHANGED req
       ELSE IF ~IsValidOid(rq.token.sub)
       THEN Answer(rq, InternalError) /\ UNCHANGED req
       ELSE Await(s, rq)
    /\ UNCHANGED <<store, oids, now, tokens>>

\* ---------------------------------------------------------------- clock
Tick ==
    /\ now % ACCESS_TOKEN_EXPIRE_MINUTES < MaxTime
    /\ now' = now + 1
    /\ last' = NoResp
    /\ UNCHANGED <<store, oids, tokens, req>>

\* the clock passes a whole token lifetime
TickWeek ==
    /\ now \div ACCESS_TOKEN_EXPIRE_MINUTES < MaxWeeks
    /\ now' = now + ACCESS_TOKEN_EXPIRE_MINUTES
    /\ last' = NoResp
    /\ UNCHANGED <<store, oids, tokens, req>>

\* ------------------------------------------------------------- register
\* lines 226-238: the existence lookup, the 400, the user document
register_find(s, name, email, password, role) ==
    /\ FreeSlot(s)
    /\ CanInsert(MaxNewUsers)
    /\ LET rq == [op |-> "register", name |-> name, email |-> email,
                  password |-> password, role |-> role]
           existing_user == find_one(users, LAMBDA u : u.email = email)
       IN IF existing_user # NoDoc
          THEN /\ Answer(rq, HTTPException(400, "Email already registered"))
               /\ UNCHANGED req
          ELSE Await(s, rq @@
                        [user_dict |->
                            [name |-> name, email |-> email,
                             password |-> hash_password(password),
                             role |-> role, created_at |-> now,
                             active |-> TRUE]])
    /\ UNCHANGED <<store, oids, now, tokens>>

\* lines 240-254: the insert, the token, the response
register_insert(s) ==
    /\ req[s].op = "register"
    /\ LET doc == [_id |-> NewOid] @@ req[s].user_dict
           access_token == create_access_token(NewOid)
       IN /\ users' = Append(users, doc)
          /\ oids' = oids + 1
          /\ tokens' = tokens \cup {access_token}
          /\ Finish(s, OK([access_token |-> access_token,
                           user |-> UserResponse(doc)]))
    /\ UNCHANGED <<jobs, timesheets, messages, photos, now>>

\* ---------------------------------------------------------------- login
login_result(email, password) ==
    LET user == find_one(users, LAMBDA u : u.email = email) IN
    IF user = NoDoc \/ ~verify_password(password, user.password)
    THEN HTTPException(401, "Invalid email or password")
    ELSE IF ~user.active
    THEN HTTPException(403, "Account is suspended")
    ELSE OK([access_token |-> create_access_token(user._id),
             user |-> UserResponse(user)])

login(email, password) ==
    LET r == login_result(email, password) IN
    /\ r.status = 200 => Cardinality(tokens \cup {r.body.access_token}) <= MaxTokens
    /\ tokens' = IF r.status = 200 THEN tokens \cup {r.body.access_token} ELSE tokens
    /\ Answer([op |-> "login", email |-> email, password |-> password], r)
    /\ UNCHANGED <<store, oids, now, req>>

\* --------------------------------------------------------------- auth/me
\* lines 198-287: the lookup, then the response built of the user it returned
get_me(s) ==
    /\ Decoded(s, "get_me")
    /\ LET auth == get_current_user_find(req[s].token) IN
       IF auth.status # 200 THEN Finish(s, auth)
       ELSE Reply(s, Authed(req[s], auth.body), OK(UserResponse(auth.body)))
    /\ UNCHANGED <<store, oids, now, tokens>>

\* ------------------------------------------------- admin user management
\* lines 198, 511-513: the caller is looked up and the role tested
get_users_begin(s) ==
    /\ Decoded(s, "get_users")
    /\ LET auth == get_current_user_find(req[s].token)
           rq == Authed(req[s], auth.body)
       IN IF auth.status # 200
          THEN Finish(s, auth)
          ELSE IF ~IsAdmin(auth.body)
          THEN Reply(s, rq, HTTPException(403, "Admin only"))
          ELSE Await(s, rq)
    /\ UNCHANGED <<store, oids, now, tokens>>

\* lines 515-526: users.find().to_list(1000) and the response
get_users(s) ==
    /\ Running(s, "get_users")
    /\ LET us == to_list(users, ListCap) IN
       Finish(s, OK([i \in 1..Len(us) |-> UserResponse(us[i])]))
    /\ UNCHANGED <<store, oids, now, tokens>>

\* ObjectId(user_id) made before the role test
set_active_begin_id_first(s, op) ==
    /\ Decoded(s, op)
    /\ LET auth == get_current_user_find(req[s].token)
           rq == Authed(req[s], auth.body)
       IN IF auth.status # 200
          THEN Finish(s, auth)
          ELSE IF ~IsValidOid(req[s].user_id)
          THEN Reply(s, rq, InternalError)
          ELSE IF ~IsAdmin(auth.body)
          THEN Reply(s, rq, HTTPException(403, "Admin only"))
          ELSE Await(s, rq)
    /\ UNCHANGED <<store, oids, now, tokens>>

\* lines 198, 531-535 and 544-548: the caller, the role test, ObjectId(user_id)
set_active_begin(s, op) ==
    /\ Decoded(s, op)
    /\ LET auth == get_current_user_find(req[s].token)
           rq == Authed(req[s], auth.body)
       IN IF auth.status # 200
          THEN Finish(s, auth)
          ELSE IF ~IsAdmin(auth.body)
          THEN Reply(s, rq, HTTPException(403, "Admin only"))
          ELSE IF ~IsValidOid(req[s].user_id)
          THEN Reply(s, rq, InternalError)
          ELSE Await(s, rq)
    /\ UNCHANGED <<store, oids, now, tokens>>

\* lines 534-539, 547-552: update_one, whose counts are not looked at
set_active(s, op, flag) ==
    /\ Running(s, op)
    /\ users' = update_one(users, LAMBDA u : u._id = req[s].user_id,
                           [active |-> flag]).coll
    /\ Finish(s, OK(IF flag THEN "User activated" ELSE "User suspended"))
    /\ UNCHANGED <<jobs, timesheets, messages, photos, oids, now, tokens>>

suspend_user_begin(s) == set_active_begin(s, "suspend_user")
suspend_user(s) == set_active(s, "suspend_user", FALSE)
activate_user_begin(s) == set_active_begin(s, "activate_user")
activate_user(s) == set_active(s, "activate_user", TRUE)

\* ----------------------------------------------------------------- jobs
\* JobResponse(**job): the response model's fields
JobResponse(job) ==
    [id |-> job._id, client_name |-> job.client_name, notes |-> job.notes,
     status |-> job.status, created_by |-> job.created_by,
     created_by_name |-> job.created_by_name, created_at |-> job.created_at,
     completed_at |-> job.completed_at]

\* pydantic validates the response model: notes is declared str (line 106),
\* while JobCreate.notes is Optional[str] (line 87) and may arrive as null
JobResponseValid(job) == job.notes # None

\* sort(key, -1): documents by descending key, ties in natural order
RECURSIVE SortDesc(_, _)
SortDesc(s, key) ==
    IF s = <<>> THEN <<>>
    ELSE LET top == CHOOSE k \in {s[i][key] : i \in 1..Len(s)} :
                        \A i \in 1..Len(s) : s[i][key] <= k
         IN SelectSeq(s, LAMBDA d : d[key] = top)
              \o SortDesc(SelectSeq(s, LAMBDA d : d[key] # top), key)

\* sort(key, 1)
RECURSIVE SortAsc(_, _)
SortAsc(s, key) ==
    IF s = <<>> THEN <<>>
    ELSE LET low == CHOOSE k \in {s[i][key] : i \in 1..Len(s)} :
                        \A i \in 1..Len(s) : k <= s[i][key]
         IN SelectSeq(s, LAMBDA d : d[key] = low)
              \o SortAsc(SelectSeq(s, LAMBDA d : d[key] # low), key)

\* lines 198, 293-301: the caller is looked up and the job document built
create_job_build(s) ==
    /\ Decoded(s, "create_job")
    /\ LET auth == get_current_user_find(req[s].token) IN
       IF auth.status # 200
       THEN Finish(s, auth)
       ELSE Await(s, Authed(req[s], auth.body) @@
               [job_dict |->
                   [client_name |-> req[s].client_name, notes |-> req[s].notes,
                    status |-> "pending",
                    created_by |-> auth.body._id,
                    created_by_name |-> auth.body.name,
                    created_at |-> now,
                    completed_at |-> NoTime]])
    /\ UNCHANGED <<store, oids, now, tokens>>

\* lines 303-306: the insert, then the response model
create_job_insert(s) ==
    /\ Running(s, "create_job")
    /\ LET doc == [_id |-> NewOid] @@ req[s].job_dict IN
       /\ jobs' = Append(jobs, doc)
       /\ oids' = oids + 1
       /\ Finish(s, IF JobResponseValid(doc) THEN OK(JobResponse(doc))
                    ELSE InternalError)
    /\ UNCHANGED <<users, timesheets, messages, photos, now, tokens>>

\* lines 312-315: elevated roles list every job, the others their own
jobs_query(user, job) == IsElevated(user) \/ job.created_by = user._id

\* lines 198, 310-315: the caller is looked up and the query built
get_jobs_begin(s) ==
    /\ Decoded(s, "get_jobs")
    /\ LET auth == get_current_user_find(req[s].token)
           rq == Authed(req[s], auth.body)
       IN IF auth.status # 200
          THEN Finish(s, auth)
          ELSE Await(s, rq)
    /\ UNCHANGED <<store, oids, now, tokens>>

\* lines 317-324: find, sort, to_list(1000) and the response models
get_jobs_result(current_user) ==
    LET found == to_list(SortDesc(find(jobs, LAMBDA j : jobs_query(current_user, j)),
                                  "created_at"),
                         ListCap)
    IN IF \E i \in 1..Len(found) : ~JobResponseValid(found[i])
       THEN InternalError
       ELSE OK([i \in 1..Len(found) |-> JobResponse(found[i])])

get_jobs(s) ==
    /\ Running(s, "get_jobs")
    /\ Finish(s, get_jobs_result(req[s].current_user))
    /\ UNCHANGED <<store, oids, now, tokens>>

\* lines 198, 328-329: the caller is looked up and ObjectId(job_id) evaluated
get_job_begin(s) ==
    /\ Decoded(s, "get_job")
    /\ LET auth == get_current_user_find(req[s].token)
           rq == Authed(req[s], auth.body)
       IN IF auth.status # 200
          THEN Finish(s, auth)
          ELSE IF ~IsValidOid(req[s].job_id)
          THEN Reply(s, rq, InternalError)
          ELSE Await(s, rq)
    /\ UNCHANGED <<store, oids, now, tokens>>

\* lines 329-334: find_one, the 404, the response model
get_job_result(job_id) ==
    LET job == find_one(jobs, LAMBDA j : j._id = job_id) IN
    IF job = NoDoc THEN HTTPException(404, "Job not found")
    ELSE IF ~JobResponseValid(job) THEN InternalError
    ELSE OK(JobResponse(job))

get_job(s) ==
    /\ Running(s, "get_job")
    /\ Finish(s, get_job_result(req[s].job_id))
    /\ UNCHANGED <<store, oids, now, tokens>>

\* line 344 without its ownership test
may_update_any(user, job) == IsElevated(user) \/ job.created_by # None

\* line 344: only creator, supervisor or admin can update
may_update(user, job) == IsElevated(user) \/ job.created_by = user._id

\* line 347 keeping the fields that are None
present_fields_all(job_data) == job_data

\* line 347: the payload's fields that are not None
present_fields(job_data) ==
    [f \in {g \in DOMAIN job_data : job_data[g] # None} |-> job_data[f]]

\* lines 349-350 never stamping
stamps_never(update_data, job) == FALSE

\* lines 349-350: completed_at is stamped when the payload sets status
\* completed and the job read at line 339 has none
stamps_completion(update_data, job) ==
    /\ "status" \in DOMAIN update_data
    /\ update_data.status = "completed"
    /\ job.completed_at = NoTime

update_data_for(job_data, job) ==
    LET update_data == present_fields(job_data) IN
    IF stamps_completion(update_data, job)
    THEN [completed_at |-> now] @@ update_data
    ELSE update_data

\* lines 198, 338-339: the caller is looked up and ObjectId(job_id) evaluated
update_job_begin(s) ==
    /\ Decoded(s, "update_job")
    /\ LET auth == get_current_user_find(req[s].token)
           rq == Authed(req[s], auth.body)
       IN IF auth.status # 200
          THEN Finish(s, auth)
          ELSE IF ~IsValidOid(req[s].job_id)
          THEN Reply(s, rq, InternalError)
          ELSE Await(s, rq)
    /\ UNCHANGED <<store, oids, now, tokens>>

\* lines 339-350: the lookup, the 404, the 403, the update document
update_job_find(s) ==
    /\ Running(s, "update_job")
    /\ req[s].pc = "find"
    /\ LET job == find_one(jobs, LAMBDA j : j._id = req[s].job_id) IN
       IF job = NoDoc
       THEN Finish(s, HTTPException(404, "Job not found"))
       ELSE IF ~may_update(req[s].current_user, job)
       THEN Finish(s, HTTPException(403, "Not authorized"))
       ELSE Await(s, [req[s] EXCEPT !.pc = "write"] @@
                     [update_data |-> update_data_for(req[s].job_data, job)])
    /\ UNCHANGED <<store, oids, now, tokens>>

\* line 352: update_one with {"$set": update_data}.  A server older than
\* MongoDB 5.0 rejects an empty $set with a write error; a newer one takes it
\* as a no-op.
update_job_write(s) ==
    /\ req[s].op = "update_job"
    /\ req[s].pc = "write"
    /\ \/ /\ jobs' = update_one(jobs, LAMBDA j : j._id = req[s].job_id,
                                req[s].update_data).coll
          /\ Await(s, [req[s] EXCEPT !.pc = "reread"])
       \/ /\ DOMAIN req[s].update_data = {}
          /\ UNCHANGED jobs
          /\ Finish(s, InternalError)
    /\ UNCHANGED <<users, timesheets, messages, photos, oids, now, tokens>>

\* lines 354-357: the job is read again and returned; updated_job.pop on the
\* None of a job deleted meanwhile raises
update_job_reread(s) ==
    /\ req[s].op = "update_job"
    /\ req[s].pc = "reread"
    /\ LET updated_job == find_one(jobs, LAMBDA j : j._id = req[s].job_id) IN
       Finish(s, IF updated_job = NoDoc THEN InternalError
                 ELSE IF ~JobResponseValid(updated_job) THEN InternalError
                 ELSE OK(JobResponse(updated_job)))
    /\ UNCHANGED <<store, oids, now, tokens>>

\* lines 198, 361-366: the caller, the role test, ObjectId(job_id)
delete_job_begin(s) ==
    /\ Decoded(s, "delete_job")
    /\ LET auth == get_current_user_find(req[s].token)
           rq == Authed(req[s], auth.body)
       IN IF auth.status # 200
          THEN Finish(s, auth)
          ELSE IF ~IsAdmin(auth.body)
          THEN Reply(s, rq, HTTPException(403, "Not authorized"))
          ELSE IF ~IsValidOid(req[s].job_id)
          THEN Reply(s, rq, InternalError)
          ELSE Await(s, rq)
    /\ UNCHANGED <<store, oids, now, tokens>>

\* lines 366-370: delete_one, the 404 of a delete that matched nothing
delete_job(s) ==
    /\ Running(s, "delete_job")
    /\ LET result == delete_one(jobs, LAMBDA j : j._id = req[s].job_id) IN
       /\ jobs' = result.coll
       /\ Finish(s, IF result.deleted_count = 0
                    THEN HTTPException(404, "Job not found")
                    ELSE OK("Job deleted successfully"))
    /\ UNCHANGED <<users, timesheets, messages, photos, oids, now, tokens>>

\* ------------------------------------------------------- hours calculator
\* A clock string is the sequence of the code points of its characters:
\* "08:00" is <<48, 56, 58, 48, 48>>.
\* the characters int() reads as the digit zero: the first of each run of ten
\* decimal digits of Unicode, "0" (48), ARABIC-INDIC DIGIT ZERO (1632), ...
DecimalZeros ==
    { 48, 1632, 1776, 1984, 2406, 2534, 2662, 2790, 2918,
      3046, 3174, 3302, 3430, 3558, 3664, 3792, 3872, 4160,
      4240, 6112, 6160, 6470, 6608, 6784, 6800, 6992, 7088,
      7232, 7248, 42528, 43216, 43264, 43472, 43504, 43600, 44016,
      65296, 66720, 68912, 69734, 69872, 69942, 70096, 70384, 70736,
      70864, 71248, 71360, 71472, 71904, 72016, 72784, 73040, 73120,
      92768, 92864, 93008, 120782, 120792, 120802, 120812, 120822, 123200,
      123632, 125264, 130032 }
IsDigit(c) == \E z \in DecimalZeros : c \in z..(z + 9)
DigitVal(c) == c - (CHOOSE z \in DecimalZeros : c \in z..(z + 9))
\* the characters int() skips around the number: TAB, LF, VT, FF, CR, the
\* blank, NEL, NO-BREAK SPACE and the space separators of Unicode
Whitespace ==
    (9..13) \cup {32, 133, 160, 5760} \cup (8192..8202)
        \cup {8232, 8233, 8239, 8287, 12288}

\* the limit CPython puts on the decimal digits of a string that int() converts
\* (sys.int_info.default_max_str_digits); a longer one raises ValueError
MaxStrDigits == 4300

\* str.split(':'): the pieces between the colons (58).  The pieces of a string
\* are the pieces of its two halves, the last piece of the first half and the
\* first piece of the second being one piece.
RECURSIVE split(_)
split(str) ==
    IF Len(str) = 0 THEN << <<>> >>
    ELSE IF Len(str) = 1 THEN (IF str[1] = 58 THEN << <<>>, <<>> >> ELSE <<str>>)
    ELSE LET mid == Len(str) \div 2
             front == split(SubSeq(str, 1, mid))
             back == split(SubSeq(str, mid + 1, Len(str)))
         IN SubSeq(front, 1, Len(front) - 1)
                \o <<front[Len(front)] \o back[1]>> \o Tail(back)

\* the stripping of surrounding whitespace that int() applies
strip(str) ==
    IF \A i \in 1..Len(str) : str[i] \in Whitespace THEN <<>>
    ELSE LET lo == CHOOSE i \in 1..Len(str) :
                      /\ str[i] \notin Whitespace
                      /\ \A j \in 1..(i - 1) : str[j] \in Whitespace
             hi == CHOOSE i \in 1..Len(str) :
                      /\ str[i] \notin Whitespace
                      /\ \A j \in (i + 1)..Len(str) : str[j] \in Whitespace
         IN SubSeq(str, lo, hi)

\* ------------------------------------------------------- Python integers
\* An int has no bound: the model keeps its sign and its magnitude, the
\* magnitude as the sequence of its decimal digits, most significant first and
\* without leading zeros.  90 is [neg |-> FALSE, mag |-> <<9, 0>>], -5 is
\* [neg |-> TRUE, mag |-> <<5>>], and zero has the magnitude <<>>.
Zero == [neg |-> FALSE, mag |-> <<>>]

\* a digit sequence without its leading zeros
Trim(d) ==
    IF \A i \in 1..Len(d) : d[i] = 0 THEN <<>>
    ELSE SubSeq(d, CHOOSE i \in 1..Len(d) :
                       d[i] # 0 /\ \A j \in 1..(i - 1) : d[j] = 0,
                Len(d))

\* a sequence back to front
Reverse(seq) == [i \in 1..Len(seq) |-> seq[Len(seq) + 1 - i]]

\* the decimal digits, least significant first, of the number whose columns,
\* least significant first, are the integers of z (a column may exceed 9 or be
\* negative), after the carry c into the first column; the lower half is
\* carried before the upper
RECURSIVE Carry(_, _)
Carry(z, c) ==
    IF Len(z) = 0 THEN [digits |-> <<>>, carry |-> c]
    ELSE IF Len(z) = 1
    THEN [digits |-> <<(z[1] + c) % 10>>, carry |-> (z[1] + c) \div 10]
    ELSE LET mid == Len(z) \div 2
             lower == Carry(SubSeq(z, 1, mid), c)
             upper == Carry(SubSeq(z, mid + 1, Len(z)), lower.carry)
         IN [digits |-> lower.digits \o upper.digits, carry |-> upper.carry]

\* a + sign * b for magnitudes a and b and sign 1 or -1 (a >= b when -1)
NatSum(a, b, sign) ==
    LET n == (IF Len(a) > Len(b) THEN Len(a) ELSE Len(b)) + 1
        at(d, i) == IF i <= Len(d) THEN d[Len(d) + 1 - i] ELSE 0
    IN Trim(Reverse(Carry([i \in 1..n |-> at(a, i) + sign * at(b, i)],
                          0).digits))

\* a * k for a magnitude a and an integer k in 0..2^27; the product has no
\* more digits than a and k together
NatMul(a, k) ==
    LET n == Len(a) + (CHOOSE p \in 1..9 : k < 10^p)
    IN Trim(Reverse(Carry([i \in 1..n |->
                              IF i <= Len(a) THEN a[Len(a) + 1 - i] * k ELSE 0],
                          0).digits))

\* a < b for magnitudes: the shorter one, or the smaller digit where they
\* first differ
NatLess(a, b) ==
    \/ Len(a) < Len(b)
    \/ /\ Len(a) = Len(b)
       /\ a # b
       /\ LET k == CHOOSE i \in 1..Len(a) :
                      a[i] # b[i] /\ \A j \in 1..(i - 1) : a[j] = b[j]
          IN a[k] < b[k]

IsOdd(a) == a # <<>> /\ a[Len(a)] % 2 = 1

\* long division of the digits a by an integer k in 1..2^27, r the remainder
\* brought in from the left; a half is divided before the other
RECURSIVE LongDiv(_, _, _)
LongDiv(a, k, r) ==
    IF Len(a) = 0 THEN [digits |-> <<>>, r |-> r]
    ELSE IF Len(a) = 1
    THEN [digits |-> <<(10 * r + a[1]) \div k>>, r |-> (10 * r + a[1]) % k]
    ELSE LET mid == Len(a) \div 2
             front == LongDiv(SubSeq(a, 1, mid), k, r)
             back == LongDiv(SubSeq(a, mid + 1, Len(a)), k, front.r)
         IN [digits |-> front.digits \o back.digits, r |-> back.r]

\* divmod(a, k) for a magnitude a
DivMod(a, k) ==
    LET d == LongDiv(a, k, 0) IN [q |-> Trim(d.digits), r |-> d.r]

\* -x and x + y for ints
IntNeg(x) == [neg |-> ~x.neg /\ x.mag # <<>>, mag |-> x.mag]
IntAdd(x, y) ==
    IF x.neg = y.neg THEN [neg |-> x.neg, mag |-> NatSum(x.mag, y.mag, 1)]
    ELSE IF NatLess(x.mag, y.mag)
    THEN [neg |-> y.neg, mag |-> NatSum(y.mag, x.mag, -1)]
    ELSE LET m == NatSum(x.mag, y.mag, -1)
         IN [neg |-> x.neg /\ m # <<>>, mag |-> m]

\* int(str): surrounding whitespace, one optional sign ("+" 43, "-" 45), then
\* decimal digits of any script that single underscores (95) may separate, at
\* most MaxStrDigits digits; anything else raises ValueError (ok = FALSE)
int(str) ==
    LET t == strip(str)
        signed == t # <<>> /\ t[1] \in {43, 45}
        body == IF signed THEN Tail(t) ELSE t
        digits == SelectSeq(body, IsDigit)
        ok == /\ body # <<>>
              /\ IsDigit(body[1])
              /\ IsDigit(body[Len(body)])
              /\ \A i \in 1..Len(body) : IsDigit(body[i]) \/ body[i] = 95
              /\ \A i \in 1..(Len(body) - 1) : ~(body[i] = 95 /\ body[i + 1] = 95)
              /\ Len(digits) <= MaxStrDigits
        mag == Trim([i \in 1..Len(digits) |-> DigitVal(digits[i])])
    IN IF ~ok THEN [ok |-> FALSE, val |-> Zero]
       ELSE [ok |-> TRUE,
             val |-> [neg |-> signed /\ t[1] = 45 /\ mag # <<>>, mag |-> mag]]

\* h, m = map(int, str.split(':')) and h * 60 + m: exactly two pieces, both
\* integers
hours_minutes(str) ==
    LET parts == split(str)
        h == int(parts[1])
        m == int(parts[2])
    IN IF Len(parts) # 2 \/ ~h.ok \/ ~m.ok
       THEN [ok |-> FALSE, minutes |-> Zero]
       ELSE [ok |-> TRUE,
             minutes |-> IntAdd([neg |-> h.val.neg,
                                 mag |-> NatMul(h.val.mag, 60)], m.val)]

\* --------------------------------------------------------- Python floats
\* A float is a double: sign, a magnitude mant below 2^53 + 1 and a power of
\* two, of value mant * 2^exp.
\* a * 2^k for a magnitude a, at most 27 doublings at a time
RECURSIVE Shl(_, _)
Shl(a, k) ==
    IF k = 0 \/ a = <<>> THEN a
    ELSE LET j == IF k > 27 THEN 27 ELSE k
         IN Shl(NatMul(a, 2^j), k - j)

\* the work_minutes whose quotient by 60 is 2^k: 60 * 2^k
Mant == [k \in 26..79 |-> Shl(<<6, 0>>, k)]
\* the least work_minutes whose quotient by 60 rounds to 2^1024, one more
\* than a double holds: 60 * (2^1024 - 2^970)
FloatOverflow == NatSum(Shl(<<6, 0>>, 1024), Shl(<<6, 0>>, 970), -1)

\* a halved or doubled, at most 27 times at a time, until a / 60 lies in
\* 2^52 .. 2^53 - 1: the magnitude left, whether a one was shifted out
\* (sticky), and the power of two
RECURSIVE Scale(_, _, _)
Scale(a, sticky, e) ==
    LET down == {j \in 1..27 : ~NatLess(a, Mant[52 + j])}
        up == {j \in 1..27 : NatLess(a, Mant[53 - j])}
    IN IF down # {}
       THEN LET j == CHOOSE i \in down : \A m \in down : m <= i
                d == DivMod(a, 2^j)
            IN Scale(d.q, sticky \/ d.r # 0, e + j)
       ELSE IF up # {}
       THEN LET j == CHOOSE i \in up : \A m \in up : m <= i
            IN Scale(NatMul(a, 2^j), sticky, e - j)
       ELSE [mag |-> a, sticky |-> sticky, exp |-> e]

\* work_minutes / 60, line 217: the double nearest the quotient, a tie going
\* to the even one; OverflowError (ok = FALSE) when that is 2^1024 or more
true_divide(work_minutes) ==
    LET a == work_minutes.mag
        s == Scale(a, FALSE, 0)
        d == DivMod(s.mag, 60)
        up == d.r > 30 \/ (d.r = 30 /\ (s.sticky \/ IsOdd(d.q)))
    IN IF a = <<>> THEN [ok |-> TRUE, neg |-> FALSE, mant |-> <<>>, exp |-> 0]
       ELSE IF ~NatLess(a, FloatOverflow)
       THEN [ok |-> FALSE, neg |-> FALSE, mant |-> <<>>, exp |-> 0]
       ELSE [ok |-> TRUE, neg |-> work_minutes.neg,
             mant |-> IF up THEN NatSum(d.q, <<1>>, 1) ELSE d.q,
             exp |-> s.exp]

\* a halved k times, at most 27 times at a time: the magnitude left, the last
\* bit shifted out (half) and whether a one was shifted out before it (sticky)
RECURSIVE Shr(_, _, _, _)
Shr(a, k, half, sticky) ==
    IF k = 0 THEN [mag |-> a, half |-> half, sticky |-> sticky]
    ELSE LET j == IF k > 27 THEN 27 ELSE k
             d == DivMod(a, 2^j)
         IN Shr(d.q, k - j, d.r >= 2^(j - 1),
                sticky \/ half \/ d.r % 2^(j - 1) # 0)

\* 100 * x cut to an integer, not rounded
round2_down(x) ==
    LET n == NatMul(x.mant, 100)
        h == IF x.exp >= 0 THEN Shl(n, x.exp)
             ELSE Shr(n, -x.exp, FALSE, FALSE).mag
    IN [neg |-> x.neg /\ h # <<>>, mag |-> h]

\* round(x, 2), line 217, in hundredths: the int nearest 100 * x, a tie going
\* to the even one.  The float returned is the double nearest that many
\* hundredths.
round2(x) ==
    LET n == NatMul(x.mant, 100)
        s == Shr(n, -x.exp, FALSE, FALSE)
        h == IF x.exp >= 0 THEN Shl(n, x.exp)
             ELSE IF s.half /\ (s.sticky \/ IsOdd(s.mag))
             THEN NatSum(s.mag, <<1>>, 1)
             ELSE s.mag
    IN [neg |-> x.neg /\ h # <<>>, mag |-> h]

\* calculate_hours, in hundredths of an hour as an int; Zero for the 0.0 of
\* the bare except, which catches the ValueError of int() and of an unpacking
\* of other than two pieces, and the OverflowError of the division
calculate_hours(start, finish, break_time) ==
    LET s == hours_minutes(start)
        f == hours_minutes(finish)
        b == hours_minutes(break_time)
        work_minutes == IntAdd(IntAdd(f.minutes, IntNeg(s.minutes)),
                               IntNeg(b.minutes))
        x == true_divide(work_minutes)
    IN IF ~s.ok \/ ~f.ok \/ ~b.ok \/ ~x.ok THEN Zero ELSE round2(x)

\* ------------------------------------------------------------ timesheets
TimesheetResponse(ts) ==
    [id |-> ts._id, user_id |-> ts.user_id, user_name |-> ts.user_name,
     date |-> ts.date, start_time |-> ts.start_time,
     finish_time |-> ts.finish_time, break_time |-> ts.break_time,
     notes |-> ts.notes, total_hours |-> ts.total_hours,
     approved |-> ts.approved, created_at |-> ts.created_at]

\* notes is declared str (line 132); TimesheetCreate.notes is Optional[str]
TimesheetResponseValid(ts) == ts.notes # None

\* lines 198, 376-389: the caller is looked up and the timesheet document built
create_timesheet_build(s) ==
    /\ Decoded(s, "create_timesheet")
    /\ LET auth == get_current_user_find(req[s].token)
           rq == req[s]
       IN IF auth.status # 200
          THEN Finish(s, auth)
          ELSE Await(s, Authed(rq, auth.body) @@
                  [timesheet_dict |->
                      [date |-> rq.date, start_time |-> rq.start_time,
                       finish_time |-> rq.finish_time,
                       break_time |-> rq.break_time,
                       notes |-> rq.notes,
                       user_id |-> auth.body._id,
                       user_name |-> auth.body.name,
                       total_hours |->
                           calculate_hours(rq.start_time, rq.finish_time,
                                           rq.break_time),
                       approved |-> FALSE,
                       created_at |-> now]])
    /\ UNCHANGED <<store, oids, now, tokens>>

\* lines 391-394
create_timesheet_insert(s) ==
    /\ Running(s, "create_timesheet")
    /\ LET doc == [_id |-> NewOid] @@ req[s].timesheet_dict IN
       /\ timesheets' = Append(timesheets, doc)
       /\ oids' = oids + 1
       /\ Finish(s, IF TimesheetResponseValid(doc) THEN OK(TimesheetResponse(doc))
                    ELSE InternalError)
    /\ UNCHANGED <<users, jobs, messages, photos, now, tokens>>

timesheets_query(user, ts) == IsElevated(user) \/ ts.user_id = user._id

\* lines 198, 398-402: the caller is looked up and the query built
get_timesheets_begin(s) ==
    /\ Decoded(s, "get_timesheets")
    /\ LET auth == get_current_user_find(req[s].token)
           rq == Authed(req[s], auth.body)
       IN IF auth.status # 200
          THEN Finish(s, auth)
          ELSE Await(s, rq)
    /\ UNCHANGED <<store, oids, now, tokens>>

\* lines 404-411: find, sort, to_list(1000) and the response models
get_timesheets_result(current_user) ==
    LET found == to_list(SortDesc(find(timesheets,
                                       LAMBDA t : timesheets_query(current_user, t)),
                                  "date"),
                         ListCap)
    IN IF \E i \in 1..Len(found) : ~TimesheetResponseValid(found[i])
       THEN InternalError
       ELSE OK([i \in 1..Len(found) |-> TimesheetResponse(found[i])])

get_timesheets(s) ==
    /\ Running(s, "get_timesheets")
    /\ Finish(s, get_timesheets_result(req[s].current_user))
    /\ UNCHANGED <<store, oids, now, tokens>>

\* lines 425-426: the 404 is decided on modified_count
approve_not_found_always(result) == TRUE
approve_not_found(result) == result.modified_count = 0

\* lines 198, 416-421: the caller, the role test, ObjectId(timesheet_id)
approve_timesheet_begin(s) ==
    /\ Decoded(s, "approve_timesheet")
    /\ LET auth == get_current_user_find(req[s].token)
           rq == Authed(req[s], auth.body)
       IN IF auth.status # 200
          THEN Finish(s, auth)
          ELSE IF ~IsElevated(auth.body)
          THEN Reply(s, rq, HTTPException(403, "Not authorized"))
          ELSE IF ~IsValidOid(req[s].timesheet_id)
          THEN Reply(s, rq, InternalError)
          ELSE Await(s, rq)
    /\ UNCHANGED <<store, oids, now, tokens>>

\* lines 420-428: update_one, the 404 of an update that modified nothing
approve_timesheet(s) ==
    /\ Running(s, "approve_timesheet")
    /\ LET result == update_one(timesheets, LAMBDA t : t._id = req[s].timesheet_id,
                                [approved |-> TRUE])
       IN /\ timesheets' = result.coll
          /\ Finish(s, IF approve_not_found(result)
                       THEN HTTPException(404, "Timesheet not found")
                       ELSE OK("Timesheet approved"))
    /\ UNCHANGED <<users, jobs, messages, photos, oids, now, tokens>>

\* -------------------------------------------------------------- messages
MessageResponse(msg) ==
    [id |-> msg._id, from_id |-> msg.from_id, from_name |-> msg.from_name,
     to |-> msg.to, message |-> msg.message, timestamp |-> msg.timestamp]

\* lines 198, 434-441: the caller is looked up and the message document built
send_message_build(s) ==
    /\ Decoded(s, "send_message")
    /\ LET auth == get_current_user_find(req[s].token) IN
       IF auth.status # 200
       THEN Finish(s, auth)
       ELSE Await(s, Authed(req[s], auth.body) @@
               [message_dict |->
                   [from_id |-> auth.body._id, from_name |-> auth.body.name,
                    to |-> req[s].to, message |-> req[s].message,
                    timestamp |-> now]])
    /\ UNCHANGED <<store, oids, now, tokens>>

\* lines 443-446
send_message_insert(s) ==
    /\ Running(s, "send_message")
    /\ LET doc == [_id |-> NewOid] @@ req[s].message_dict IN
       /\ messages' = Append(messages, doc)
       /\ oids' = oids + 1
       /\ Finish(s, OK(MessageResponse(doc)))
    /\ UNCHANGED <<users, jobs, timesheets, photos, now, tokens>>

\* lines 457-462 matching the caller's side alone
messages_query_own(user, channel, msg) ==
    IF channel = Team
    THEN msg.to = Team
    ELSE msg.from_id = user._id \/ msg.to = user._id

\* lines 452-462: the team channel, or the conversation of the caller and
\* the user the channel names
messages_query(user, channel, msg) ==
    IF channel = Team
    THEN msg.to = Team
    ELSE \/ msg.from_id = user._id /\ msg.to = channel
         \/ msg.from_id = channel /\ msg.to = user._id

\* lines 198, 450-462: the caller is looked up and the query built
get_messages_begin(s) ==
    /\ Decoded(s, "get_messages")
    /\ LET auth == get_current_user_find(req[s].token)
           rq == Authed(req[s], auth.body)
       IN IF auth.status # 200
          THEN Finish(s, auth)
          ELSE Await(s, rq)
    /\ UNCHANGED <<store, oids, now, tokens>>

\* lines 464-471: find, sort, to_list(1000) and the response models
get_messages_result(current_user, channel) ==
    LET found == to_list(SortAsc(find(messages,
                                      LAMBDA m : messages_query(current_user, channel, m)),
                                 "timestamp"),
                         ListCap)
    IN OK([i \in 1..Len(found) |-> MessageResponse(found[i])])

get_messages(s) ==
    /\ Running(s, "get_messages")
    /\ Finish(s, get_messages_result(req[s].current_user, req[s].channel))
    /\ UNCHANGED <<store, oids, now, tokens>>

\* ---------------------------------------------------------------- photos
PhotoResponse(photo) ==
    [id |-> photo._id, job_id |-> photo.job_id, user_id |-> photo.user_id,
     user_name |-> photo.user_name, caption |-> photo.caption,
     uploaded_at |-> photo.uploaded_at]
\* PhotoResponse.caption is str, PhotoUpload.caption is Optional[str]
PhotoResponseValid(photo) == photo.caption # None

\* lines 198, 476-478: the caller is looked up and ObjectId(photo_data.job_id) evaluated
upload_photo_begin(s) ==
    /\ Decoded(s, "upload_photo")
    /\ LET auth == get_current_user_find(req[s].token)
           rq == Authed(req[s], auth.body)
       IN IF auth.status # 200
          THEN Finish(s, auth)
          ELSE IF ~IsValidOid(req[s].job_id)
          THEN Reply(s, rq, InternalError)
          ELSE Await(s, rq)
    /\ UNCHANGED <<store, oids, now, tokens>>

\* lines 478-489: the job's existence check, the 404, the photo document
upload_photo_find(s) ==
    /\ Running(s, "upload_photo")
    /\ req[s].pc = "find"
    /\ LET job == find_one(jobs, LAMBDA j : j._id = req[s].job_id) IN
       IF job = NoDoc
       THEN Finish(s, HTTPException(404, "Job not found"))
       ELSE Await(s, [req[s] EXCEPT !.pc = "insert"] @@
                  [photo_dict |->
                      [job_id |-> req[s].job_id,
                       user_id |-> req[s].current_user._id,
                       user_name |-> req[s].current_user.name,
                       caption |-> req[s].caption,
                       uploaded_at |-> now]])
    /\ UNCHANGED <<store, oids, now, tokens>>

\* lines 491-494: the insert, then the response model
upload_photo_insert(s) ==
    /\ req[s].op = "upload_photo"
    /\ req[s].pc = "insert"
    /\ LET doc == [_id |-> NewOid] @@ req[s].photo_dict IN
       /\ photos' = Append(photos, doc)
       /\ oids' = oids + 1
       /\ Finish(s, IF PhotoResponseValid(doc) THEN OK(PhotoResponse(doc))
                    ELSE InternalError)
    /\ UNCHANGED <<users, jobs, timesheets, messages, now, tokens>>

\* lines 198, 498: the caller is looked up; job_id is matched as a string and never parsed
get_job_photos_begin(s) ==
    /\ Decoded(s, "get_job_photos")
    /\ LET auth == get_current_user_find(req[s].token)
           rq == Authed(req[s], auth.body)
       IN IF auth.status # 200
          THEN Finish(s, auth)
          ELSE Await(s, rq)
    /\ UNCHANGED <<store, oids, now, tokens>>

\* lines 499-506: the job's photos, newest first
get_job_photos_result(job_id) ==
    LET found == to_list(SortDesc(find(photos, LAMBDA p : p.job_id = job_id),
                                  "uploaded_at"), ListCap)
    IN IF \E k \in 1..Len(found) : ~PhotoResponseValid(found[k])
       THEN InternalError
       ELSE OK([k \in 1..Len(found) |-> PhotoResponse(found[k])])

get_job_photos(s) ==
    /\ Running(s, "get_job_photos")
    /\ Finish(s, get_job_photos_result(req[s].job_id))
    /\ UNCHANGED <<store, oids, now, tokens>>

\* ------------------------------------------------------- dashboard stats
\* lines 560-571: the counts an admin, and any other caller, is given
AdminStats ==
    <<"total_jobs", "pending_jobs", "active_jobs", "completed_jobs",
      "total_users", "pending_timesheets">>
OwnStats == <<"my_jobs", "my_pending_jobs", "my_timesheets">>

\* one count_documents call
count_documents(name, user_id) ==
    CASE name = "total_jobs" -> Len(jobs)
      [] name = "pending_jobs" -> Len(find(jobs, LAMBDA j : j.status = "pending"))
      [] name = "active_jobs" -> Len(find(jobs, LAMBDA j : j.status = "active"))
      [] name = "completed_jobs" ->
            Len(find(jobs, LAMBDA j : j.status = "completed"))
      [] name = "total_users" -> Len(users)
      [] name = "pending_timesheets" ->
            Len(find(timesheets, LAMBDA t : ~t.approved))
      [] name = "my_jobs" -> Len(find(jobs, LAMBDA j : j.created_by = user_id))
      [] name = "my_pending_jobs" ->
            Len(find(jobs, LAMBDA j : j.created_by = user_id
                                      /\ j.status = "pending"))
      [] name = "my_timesheets" ->
            Len(find(timesheets, LAMBDA t : t.user_id = user_id))

\* lines 198, 557-559: the caller is looked up and the role picks the counts
get_dashboard_stats_begin(s) ==
    /\ Decoded(s, "get_dashboard_stats")
    /\ LET auth == get_current_user_find(req[s].token)
           rq == Authed(req[s], auth.body)
       IN IF auth.status # 200
          THEN Finish(s, auth)
          ELSE Await(s, rq @@
                  [user_id |-> auth.body._id,
                   names |-> IF IsAdmin(auth.body) THEN AdminStats ELSE OwnStats,
                   stats |-> <<>>])
    /\ UNCHANGED <<store, oids, now, tokens>>

\* each count is awaited on its own; the last one is followed by the return
get_dashboard_stats_count(s) ==
    /\ Running(s, "get_dashboard_stats")
    /\ LET k == Len(req[s].stats) + 1
           stats == Append(req[s].stats,
                           count_documents(req[s].names[k], req[s].user_id))
       IN IF k < Len(req[s].names)
          THEN Await(s, [req[s] EXCEPT !.stats = stats])
          ELSE Finish(s, OK(stats))
    /\ UNCHANGED <<store, oids, now, tokens>>

\* --------------------------------------------------------------- inputs
\* a bearer-protected request as it arrives: the route, the credentials, and
\* the path parameters and body fields
Request(op, token, params) == [op |-> op, token |-> token] @@ params
NoParams == <<>>
\* a request arrives when one more insert keeps the documents within max
Arrives(s, max, rq) == CanInsert(max) /\ get_current_user_decode(s, rq)
Bearers == tokens \cup {ForgedToken, BadSubToken, NoUserToken}
Emails == {"wes@x", "new@x"}
Passwords == {"pw", "pw2"}
\* a seeded worker, the second account registered later, an id of no user, a
\* malformed id
UserIds == {Oid(3), Oid(6), FreeOid, BadOid}
\* calls of the suspend and activate routes: the admin on every id, a
\* supervisor and a worker on the seeded worker
AdminCalls ==
    ({SeedToken(1)} \X UserIds) \cup ({SeedToken(2), SeedToken(3)} \X {Oid(3)})

\* the four accounts' tokens
Ann == SeedToken(1)
Sam == SeedToken(2)
Wes == SeedToken(3)
Wil == SeedToken(4)

\* ------------------------------------------------- accounts and sessions
NextAuth ==
    \/ TickWeek
    \/ \E s \in Slots, e \in Emails, p \in Passwords :
          register_find(s, "New", e, p, "worker")
    \/ \E s \in Slots : register_insert(s)
    \/ \E e \in Emails, p \in Passwords : login(e, p)
    \/ \E s \in Slots, t \in Bearers :
          get_current_user_decode(s, Request("get_me", t, NoParams))
    \/ \E s \in Slots : get_me(s)
    \/ \E s \in Slots, t \in {SeedToken(1), SeedToken(2)} :
          get_current_user_decode(s, Request("get_users", t, NoParams))
    \/ \E s \in Slots : get_users_begin(s)
    \/ \E s \in Slots : get_users(s)
    \/ \E s \in Slots, a \in AdminCalls :
          get_current_user_decode(s, Request("suspend_user", a[1], [user_id |-> a[2]]))
    \/ \E s \in Slots : suspend_user_begin(s)
    \/ \E s \in Slots : suspend_user(s)
    \/ \E s \in Slots, a \in {<<SeedToken(1), Oid(3)>>, <<SeedToken(2), Oid(3)>>} :
          get_current_user_decode(s, Request("activate_user", a[1], [user_id |-> a[2]]))
    \/ \E s \in Slots : activate_user_begin(s)
    \/ \E s \in Slots : activate_user(s)
    \/ \E s \in Slots :
          get_current_user_decode(s, Request("get_jobs", SeedToken(3), NoParams))
    \/ \E s \in Slots : get_jobs_begin(s)
    \/ \E s \in Slots : get_jobs(s)

SpecAuth == Init /\ [][NextAuth]_vars

\* ---------------------------------------------------- admin-only routes
\* the admin, the supervisor, a worker, an id of no user and a malformed id
AdminTargets == {Oid(1), Oid(2), Oid(3), FreeOid, BadOid}

\* the admin, the supervisor and a worker on the three routes, suspend and
\* activate on every target
NextAdmin ==
    \/ \E s \in Slots, t \in {Ann, Sam, Wes} :
          get_current_user_decode(s, Request("get_users", t, NoParams))
    \/ \E s \in Slots : get_users_begin(s)
    \/ \E s \in Slots : get_users(s)
    \/ \E s \in Slots, t \in {Ann, Sam, Wes}, u \in AdminTargets :
          get_current_user_decode(s, Request("suspend_user", t, [user_id |-> u]))
    \/ \E s \in Slots : suspend_user_begin(s)
    \/ \E s \in Slots : suspend_user(s)
    \/ \E s \in Slots, t \in {Ann, Sam, Wes}, u \in AdminTargets :
          get_current_user_decode(s, Request("activate_user", t, [user_id |-> u]))
    \/ \E s \in Slots : activate_user_begin(s)
    \/ \E s \in Slots : activate_user(s)

SpecAdmin == Init /\ [][NextAdmin]_vars

\* ------------------------------------------------------------------ jobs
\* the id of the first document inserted after the initial state
Doc1 == Oid(Len(SeedUsers) + 1)
\* JobUpdate payloads, None for a field the payload leaves out
Completed == [notes |-> None, status |-> "completed"]
JobUpdates ==
    { Completed,
      [notes |-> None, status |-> "active"],
      [notes |-> "n2", status |-> None],
      [notes |-> None, status |-> None] }

\* update requests: a supervisor and two workers with every payload on the
\* first job; the admin on an id of no job and on a malformed id
UpdateRequests ==
    ({Sam, Wes, Wil} \X {Doc1} \X JobUpdates)
        \cup ({Ann} \X {FreeOid, BadOid} \X {Completed})
DeleteRequests == ({Ann} \X {Doc1, FreeOid, BadOid}) \cup ({Sam} \X {Doc1})

NextJobs ==
    \/ Tick
    \/ \E s \in Slots, t \in {Sam, Wes}, n \in {"n1", None} :
          Arrives(s, MaxJobs,
                  Request("create_job", t, [client_name |-> "c1", notes |-> n]))
    \/ \E s \in Slots : create_job_build(s)
    \/ \E s \in Slots : create_job_insert(s)
    \/ \E s \in Slots, t \in {Sam, Wes} :
          get_current_user_decode(s, Request("get_jobs", t, NoParams))
    \/ \E s \in Slots : get_jobs_begin(s)
    \/ \E s \in Slots : get_jobs(s)
    \/ \E s \in Slots, j \in {Doc1, BadOid} :
          get_current_user_decode(s, Request("get_job", Wil, [job_id |-> j]))
    \/ \E s \in Slots : get_job_begin(s)
    \/ \E s \in Slots : get_job(s)
    \/ \E s \in Slots, u \in UpdateRequests :
          get_current_user_decode(s, Request("update_job", u[1],
              [pc |-> "find", job_id |-> u[2], job_data |-> u[3]]))
    \/ \E s \in Slots : update_job_begin(s)
    \/ \E s \in Slots : update_job_find(s)
    \/ \E s \in Slots : update_job_write(s)
    \/ \E s \in Slots : update_job_reread(s)
    \/ \E s \in Slots, d \in DeleteRequests :
          get_current_user_decode(s, Request("delete_job", d[1], [job_id |-> d[2]]))
    \/ \E s \in Slots : delete_job_begin(s)
    \/ \E s \in Slots : delete_job(s)

SpecJobs == Init /\ [][NextJobs]_vars

\* ------------------------------------------------------------ timesheets
\* the clock string "HH:MM" of an hour and a minute below 100
Clock(h, m) ==
    <<48 + (h \div 10), 48 + (h % 10), 58, 48 + (m \div 10), 48 + (m % 10)>>

\* the supervisor approves the first document, an id of none and a malformed
\* id, a worker the first document
Approvals == ({Sam} \X {Doc1, FreeOid, BadOid}) \cup ({Wes} \X {Doc1})

NextSheets ==
    \/ Tick
    \/ \E s \in Slots, t \in {Wes, Wil}, d \in {1, 2}, n \in {"", None} :
          Arrives(s, MaxSheets, Request("create_timesheet", t,
              [date |-> d, start_time |-> Clock(8, 0), finish_time |-> Clock(17, 0),
               break_time |-> Clock(1, 0), notes |-> n]))
    \/ \E s \in Slots :
          Arrives(s, MaxSheets, Request("create_timesheet", Wes,
              [date |-> 1, start_time |-> <<97, 98, 99>>, finish_time |-> Clock(17, 0),
               break_time |-> Clock(1, 0), notes |-> ""]))
    \/ \E s \in Slots : create_timesheet_build(s)
    \/ \E s \in Slots : create_timesheet_insert(s)
    \/ \E s \in Slots, t \in {Sam, Wes} :
          get_current_user_decode(s, Request("get_timesheets", t, NoParams))
    \/ \E s \in Slots : get_timesheets_begin(s)
    \/ \E s \in Slots : get_timesheets(s)
    \/ \E s \in Slots, a \in Approvals :
          get_current_user_decode(s, Request("approve_timesheet", a[1],
                                             [timesheet_id |-> a[2]]))
    \/ \E s \in Slots : approve_timesheet_begin(s)
    \/ \E s \in Slots : approve_timesheet(s)

SpecSheets == Init /\ [][NextSheets]_vars

\* -------------------------------------------------------------- messages
\* A store that already holds ListCap team messages, all sent by the
\* supervisor at time 0.
Backlog ==
    [i \in 1..ListCap |->
        [_id |-> Oid(Len(SeedUsers) + i), from_id |-> Oid(2), from_name |-> "Sam",
         to |-> Team, message |-> "m", timestamp |-> 0]]

\* The initial state, with the messages collection empty or at the cap.
InitMessages ==
    /\ users = SeedUsers
    /\ jobs = <<>>
    /\ timesheets = <<>>
    /\ photos = <<>>
    /\ \/ messages = <<>> /\ oids = Len(SeedUsers)
       \/ messages = Backlog /\ oids = Len(SeedUsers) + ListCap
    /\ now = 0
    /\ tokens = {SeedToken(n) : n \in 1..Len(SeedUsers)}
    /\ req = [s \in Slots |-> Idle]
    /\ last = NoResp

\* who writes to whom, and who reads which channel
Sends == {<<Wes, Team>>, <<Wes, Oid(4)>>, <<Wil, Oid(3)>>, <<Sam, Oid(3)>>}
Reads == {<<Wes, Team>>, <<Wes, Oid(4)>>}

NextMessages ==
    \/ Tick
    \/ \E s \in Slots, m \in Sends :
          Arrives(s, MaxMsgs,
                  Request("send_message", m[1], [to |-> m[2], message |-> "m"]))
    \/ \E s \in Slots : send_message_build(s)
    \/ \E s \in Slots : send_message_insert(s)
    \/ \E s \in Slots, r \in Reads :
          get_current_user_decode(s, Request("get_messages", r[1], [channel |-> r[2]]))
    \/ \E s \in Slots : get_messages_begin(s)
    \/ \E s \in Slots : get_messages(s)

SpecMessages == InitMessages /\ [][NextMessages]_vars

\* ---------------------------------------------------------------- photos
NextPhotos ==
    \/ Tick
    \/ \E s \in Slots :
          Arrives(s, MaxJobs,
                  Request("create_job", Sam, [client_name |-> "c1", notes |-> "n1"]))
    \/ \E s \in Slots : create_job_build(s)
    \/ \E s \in Slots : create_job_insert(s)
    \/ \E s \in Slots, j \in {Doc1, FreeOid} :
          get_current_user_decode(s, Request("delete_job", Ann, [job_id |-> j]))
    \/ \E s \in Slots : delete_job_begin(s)
    \/ \E s \in Slots : delete_job(s)
    \/ \E s \in Slots, j \in {Doc1, FreeOid, BadOid}, c \in {"cap", None} :
          Arrives(s, MaxJobs + MaxPhotos, Request("upload_photo", Wes,
              [pc |-> "find", job_id |-> j, caption |-> c]))
    \/ \E s \in Slots : upload_photo_begin(s)
    \/ \E s \in Slots : upload_photo_find(s)
    \/ \E s \in Slots : upload_photo_insert(s)
    \/ \E s \in Slots, j \in {Doc1, FreeOid} :
          get_current_user_decode(s, Request("get_job_photos", Wil, [job_id |-> j]))
    \/ \E s \in Slots : get_job_photos_begin(s)
    \/ \E s \in Slots : get_job_photos(s)

SpecPhotos == Init /\ [][NextPhotos]_vars

\* --------------------------------------------- updates of disjoint fields
\* Wes's job, and two payloads that set disjoint fields of it: the creator
\* completes it, the supervisor rewrites its notes.
SetsStatus == [notes |-> None, status |-> "completed"]
SetsNotes == [notes |-> "n2", status |-> None]
NextUpdates ==
    \/ Tick
    \/ \E s \in Slots :
          Arrives(s, MaxJobs,
                  Request("create_job", Wes, [client_name |-> "c1", notes |-> "n1"]))
    \/ \E s \in Slots : create_job_build(s)
    \/ \E s \in Slots : create_job_insert(s)
    \/ \E s \in Slots :
          get_current_user_decode(s, Request("update_job", Wes,
              [pc |-> "find", job_id |-> Doc1, job_data |-> SetsStatus]))
    \/ \E s \in Slots :
          get_current_user_decode(s, Request("update_job", Sam,
              [pc |-> "find", job_id |-> Doc1, job_data |-> SetsNotes]))
    \/ \E s \in Slots : update_job_begin(s)
    \/ \E s \in Slots : update_job_find(s)
    \/ \E s \in Slots : update_job_write(s)
    \/ \E s \in Slots : update_job_reread(s)
    \/ \E s \in Slots :
          get_current_user_decode(s, Request("get_job", Wil, [job_id |-> Doc1]))
    \/ \E s \in Slots : get_job_begin(s)
    \/ \E s \in Slots : get_job(s)

SpecUpdates == Init /\ [][NextUpdates]_vars

\* ------------------------------------------------------ hours of a timesheet
\* a string of n characters c
Run(c, n) == [i \in 1..n |-> c]

\* two starts, three finishes and three breaks of the form HH:MM
ClockInputs ==
    {Clock(8, 0), Clock(9, 0)}
        \X {Clock(17, 0), Clock(9, 20), Clock(9, 30)}
        \X {Clock(0, 0), Clock(0, 10), Clock(1, 0)}

\* strings that are not of the form HH:MM
OddClocks ==
    { <<9, 56, 58, 48, 48>>,                       \* TAB "8:00"
      <<1640, 58, 48, 48>>,                        \* ARABIC-INDIC EIGHT ":00"
      <<43, 49, 55, 58, 48, 95, 48>>,              \* "+17:0_0"
      <<45, 49, 58, 48, 48>>,                      \* "-1:00"
      <<32, 57, 32, 58, 32, 51, 48, 32>>,          \* " 9 : 30 "
      <<97, 98, 99>>,                              \* "abc"
      <<49, 58, 50, 58, 51>>,                      \* "1:2:3"
      <<>>,                                        \* ""
      <<56, 58>>,                                  \* "8:"
      <<58, 51, 48>>,                              \* ":30"
      <<48, 120, 58, 48, 48>>,                     \* "0x:00"
      <<56, 32, 56, 58, 48, 48>>,                  \* "8 8:00"
      <<49, 95, 95, 48, 58, 48, 48>>,              \* "1__0:00"
      <<43, 58, 48, 48>>,                          \* "+:00"
      <<57, 48, 48, 55, 49, 57, 57, 50, 53, 52, 55, 52, 48, 57, 57, 51,
        58, 48, 48>>,                              \* "9007199254740993:00"
      Run(48, MaxStrDigits) \o <<58, 48, 48>>,     \* 4300 zeros ":00"
      Run(48, MaxStrDigits + 1) \o <<58, 48, 48>>, \* 4301 zeros ":00"
      <<49>> \o Run(48, 400) \o <<58, 48, 48>> }   \* "1", 400 zeros, ":00"

\* every odd string as the start, the finish and the break of a nine-hour
\* day, and a start and finish of 4300 nines of hours each
OddInputs ==
    (OddClocks \X {Clock(17, 0)} \X {Clock(1, 0)})
        \cup ({Clock(8, 0)} \X OddClocks \X {Clock(1, 0)})
        \cup ({Clock(8, 0)} \X {Clock(17, 0)} \X OddClocks)
        \cup {<<Run(57, MaxStrDigits) \o <<58, 48, 48>>,
                Run(57, MaxStrDigits) \o <<58, 51, 48>>, Clock(0, 0)>>}

\* a timesheet of odd strings is the first of the store, one of HH:MM strings
\* the first or the second
NextHours ==
    \/ \E s \in Slots, h \in OddInputs :
          Arrives(s, MaxOddSheets, Request("create_timesheet", Wes,
              [date |-> 1, start_time |-> h[1], finish_time |-> h[2],
               break_time |-> h[3], notes |-> ""]))
    \/ \E s \in Slots, h \in ClockInputs :
          Arrives(s, MaxSheets, Request("create_timesheet", Wes,
              [date |-> 1, start_time |-> h[1], finish_time |-> h[2],
               break_time |-> h[3], notes |-> ""]))
    \/ \E s \in Slots : create_timesheet_build(s)
    \/ \E s \in Slots : create_timesheet_insert(s)

SpecHours == Init /\ [][NextHours]_vars

\* ---------------------------------------------------------- every endpoint
NextAll ==
    \/ \E s \in Slots, e \in Emails :
          CanInsert(MaxDocs) /\ register_find(s, "New", e, "pw", "worker")
    \/ \E s \in Slots : register_insert(s)
    \/ \E e \in Emails, p \in Passwords : login(e, p)
    \/ \E s \in Slots, t \in {Wes, ForgedToken} :
          get_current_user_decode(s, Request("get_me", t, NoParams))
    \/ \E s \in Slots : get_me(s)
    \/ \E s \in Slots :
          get_current_user_decode(s, Request("get_users", Ann, NoParams))
    \/ \E s \in Slots : get_users_begin(s)
    \/ \E s \in Slots : get_users(s)
    \/ \E s \in Slots, t \in {Ann, Sam} :
          get_current_user_decode(s, Request("suspend_user", t, [user_id |-> Oid(3)]))
    \/ \E s \in Slots : suspend_user_begin(s)
    \/ \E s \in Slots : suspend_user(s)
    \/ \E s \in Slots, t \in {Ann, Wil} :
          get_current_user_decode(s, Request("activate_user", t, [user_id |-> Oid(3)]))
    \/ \E s \in Slots : activate_user_begin(s)
    \/ \E s \in Slots : activate_user(s)
    \/ \E s \in Slots :
          Arrives(s, MaxDocs,
                  Request("create_job", Wes, [client_name |-> "c1", notes |-> "n1"]))
    \/ \E s \in Slots : create_job_build(s)
    \/ \E s \in Slots : create_job_insert(s)
    \/ \E s \in Slots :
          get_current_user_decode(s, Request("get_jobs", Wes, NoParams))
    \/ \E s \in Slots : get_jobs_begin(s)
    \/ \E s \in Slots : get_jobs(s)
    \/ \E s \in Slots :
          get_current_user_decode(s, Request("get_job", Wil, [job_id |-> Doc1]))
    \/ \E s \in Slots : get_job_begin(s)
    \/ \E s \in Slots : get_job(s)
    \/ \E s \in Slots, t \in {Wes, Wil} :
          get_current_user_decode(s, Request("update_job", t,
              [pc |-> "find", job_id |-> Doc1, job_data |-> Completed]))
    \/ \E s \in Slots : update_job_begin(s)
    \/ \E s \in Slots : update_job_find(s)
    \/ \E s \in Slots : update_job_write(s)
    \/ \E s \in Slots : update_job_reread(s)
    \/ \E s \in Slots, d \in {<<Ann, Doc1>>, <<Sam, Doc1>>} :
          get_current_user_decode(s, Request("delete_job", d[1], [job_id |-> d[2]]))
    \/ \E s \in Slots : delete_job_begin(s)
    \/ \E s \in Slots : delete_job(s)
    \/ \E s \in Slots :
          Arrives(s, MaxDocs, Request("create_timesheet", Wes,
              [date |-> 1, start_time |-> Clock(8, 0), finish_time |-> Clock(17, 0),
               break_time |-> Clock(1, 0), notes |-> ""]))
    \/ \E s \in Slots : create_timesheet_build(s)
    \/ \E s \in Slots : create_timesheet_insert(s)
    \/ \E s \in Slots :
          get_current_user_decode(s, Request("get_timesheets", Wes, NoParams))
    \/ \E s \in Slots : get_timesheets_begin(s)
    \/ \E s \in Slots : get_timesheets(s)
    \/ \E s \in Slots, a \in {<<Sam, Doc1>>, <<Wes, Doc1>>} :
          get_current_user_decode(s, Request("approve_timesheet", a[1],
                                             [timesheet_id |-> a[2]]))
    \/ \E s \in Slots : approve_timesheet_begin(s)
    \/ \E s \in Slots : approve_timesheet(s)
    \/ \E s \in Slots :
          Arrives(s, MaxDocs,
                  Request("send_message", Wes, [to |-> Team, message |-> "m1"]))
    \/ \E s \in Slots : send_message_build(s)
    \/ \E s \in Slots : send_message_insert(s)
    \/ \E s \in Slots :
          get_current_user_decode(s, Request("get_messages", Wes, [channel |-> Team]))
    \/ \E s \in Slots : get_messages_begin(s)
    \/ \E s \in Slots : get_messages(s)
    \/ \E s \in Slots :
          Arrives(s, MaxDocs, Request("upload_photo", Wes,
              [pc |-> "find", job_id |-> Doc1, caption |-> "cap"]))
    \/ \E s \in Slots : upload_photo_begin(s)
    \/ \E s \in Slots : upload_photo_find(s)
    \/ \E s \in Slots : upload_photo_insert(s)
    \/ \E s \in Slots :
          get_current_user_decode(s, Request("get_job_photos", Wil, [job_id |-> Doc1]))
    \/ \E s \in Slots : get_job_photos_begin(s)
    \/ \E s \in Slots : get_job_photos(s)
    \/ \E s \in Slots, t \in {Wes, ForgedToken} :
          get_current_user_decode(s, Request("get_dashboard_stats", t, NoParams))
    \/ \E s \in Slots : get_dashboard_stats_begin(s)
    \/ \E s \in Slots : get_dashboard_stats_count(s)

SpecAll == Init /\ [][NextAll]_vars

\* ===================================================================== claims
\* the user get_current_user returned to the handler of a request
CallerOf(rq) == rq.current_user
HasJob(id) == \E i \in 1..Len(jobs) : jobs[i]._id = id

\* C1 (as claimed): after any interleaving of register requests no two user
\* records share an email.
C1_UniqueEmails ==
    \A i, j \in 1..Len(users) : i # j => users[i].email # users[j].email

\* C2 (as claimed): a job's completed_at leaves null only in the write of an
\* update_job that sets status completed, and once it is not null no step
\* changes or clears it.
C2_CompletedAtSetOnce ==
    [][\A i \in 1..Len(jobs), k \in 1..Len(jobs') :
          jobs[i]._id = jobs'[k]._id =>
             IF jobs[i].completed_at # NoTime
             THEN jobs'[k].completed_at = jobs[i].completed_at
             ELSE jobs'[k].completed_at # NoTime =>
                     \E s \in Slots :
                        /\ req[s].op = "update_job"
                        /\ req[s].job_data.status = "completed"]_vars

\* C3 (as claimed): a supervisor's or admin's approve of an existing
\* timesheet that is already approved is answered 200 and leaves it approved.
C3_ApproveIdempotent ==
    [][(/\ last'.rq.op = "approve_timesheet"
        /\ Resolved(last'.rq)
        /\ CallerOf(last'.rq).role \in {"admin", "supervisor"}
        /\ \E i \in 1..Len(timesheets) :
              /\ timesheets[i]._id = last'.rq.timesheet_id
              /\ timesheets[i].approved)
       => (/\ last'.status = 200
           /\ \E i \in 1..Len(timesheets') :
                 /\ timesheets'[i]._id = last'.rq.timesheet_id
                 /\ timesheets'[i].approved)]_vars

\* C4 (as claimed): for every stored job, get_jobs lists it for its creator
\* and for every supervisor and admin, and does not list it for a worker
\* who is not its creator.
C4_ListVisibility ==
    \A i \in 1..Len(jobs), u \in 1..Len(users) :
        LET r == get_jobs_result(users[u])
            listed == /\ r.status = 200
                      /\ \E k \in 1..Len(r.body) : r.body[k].id = jobs[i]._id
        IN IF \/ users[u]._id = jobs[i].created_by
              \/ users[u].role \in {"admin", "supervisor"}
           THEN listed
           ELSE ~listed

\* C5: an update_job request goes on to its write, and is answered 200, only
\* for an admin, a supervisor or the job's creator; for any other caller on an
\* existing job it is answered 403 in a step that leaves the jobs as they were.
C5_UpdateAuthorization ==
    [][/\ \A s \in Slots :
            (/\ req[s].op = "update_job" /\ req[s].pc = "find"
             /\ req'[s].op = "update_job" /\ req'[s].pc = "write") =>
               \/ CallerOf(req'[s]).role \in {"admin", "supervisor"}
               \/ \E i \in 1..Len(jobs) :
                     /\ jobs[i]._id = req'[s].job_id
                     /\ jobs[i].created_by = CallerOf(req'[s])._id
       /\ (last'.rq.op = "update_job" /\ last'.status = 200) =>
               \/ CallerOf(last'.rq).role \in {"admin", "supervisor"}
               \/ last'.body.created_by = CallerOf(last'.rq)._id
       /\ (/\ last'.rq.op = "update_job"
           /\ last'.rq.pc = "find"
           /\ Resolved(last'.rq)
           /\ CallerOf(last'.rq).role \notin {"admin", "supervisor"}
           /\ \E i \in 1..Len(jobs) :
                 /\ jobs[i]._id = last'.rq.job_id
                 /\ jobs[i].created_by # CallerOf(last'.rq)._id)
          => (last'.status = 403 /\ jobs' = jobs)]_vars

\* C5 witness: a worker's update of another user's existing job was refused
C5_Witness ==
    /\ last.rq.op = "update_job"
    /\ last.status = 403
    /\ CallerOf(last.rq).role = "worker"
    /\ \E i \in 1..Len(jobs) :
          jobs[i]._id = last.rq.job_id /\ jobs[i].created_by # CallerOf(last.rq)._id

\* C6 (as claimed): a delete_job by a caller who is not admin is answered 403
\* and leaves the jobs as they were; an admin's delete_job of an id that no
\* job has is answered 404 and leaves the jobs as they were.
C6_DeleteAdminOnly ==
    [][(last'.rq.op = "delete_job" /\ Resolved(last'.rq)) =>
          IF CallerOf(last'.rq).role # "admin"
          THEN last'.status = 403 /\ jobs' = jobs
          ELSE ~HasJob(last'.rq.job_id) => (last'.status = 404 /\ jobs' = jobs)]_vars

\* C7 (as claimed): a login with the email and password of a user whose active
\* flag is false is answered 403 and issues no token.
C7_SuspendedLoginForbidden ==
    (/\ last.rq.op = "login"
     /\ \E i \in 1..Len(users) :
           /\ users[i].email = last.rq.email
           /\ verify_password(last.rq.password, users[i].password)
           /\ ~users[i].active)
    => last.status = 403

\* C8: every token the server issued resolves to its user whatever the
\* user's active flag, and a request bearing an issued token is refused
\* authentication (401) only by the decoding of the token, in a step taken
\* when the token has expired: a suspended user's token keeps authenticating
\* until it expires.
C8_TokenOutlivesSuspension ==
    /\ \A t \in tokens : get_current_user_find(t).status = 200
    /\ ("token" \in DOMAIN last.rq /\ last.rq.token \in tokens /\ last.status = 401)
          => /\ now >= last.rq.token.exp
             /\ last.body = "Invalid authentication credentials"

\* C8 witness: auth/me answered 200 for a user who is suspended
C8_Witness ==
    /\ last.rq.op = "get_me"
    /\ last.status = 200
    /\ \E i \in 1..Len(users) :
          users[i]._id = last.rq.token.sub /\ ~users[i].active

\* C9: a call of an admin-only route by an authenticated caller whose role is
\* not admin is answered 403 with the detail string alone for a body, and it
\* leaves the users collection as it was, whatever the target id.
C9_AdminOnly ==
    [][(/\ last'.rq.op \in {"get_users", "suspend_user", "activate_user"}
        /\ Resolved(last'.rq)
        /\ CallerOf(last'.rq).role # "admin")
       => (/\ last'.status = 403
           /\ last'.body = "Admin only"
           /\ users' = users)]_vars

\* C9 witness: a worker's activate_user that names a malformed id has been
\* answered 403 while a user is suspended
C9_Witness ==
    /\ last.rq.op = "activate_user"
    /\ last.status = 403
    /\ CallerOf(last.rq).role = "worker"
    /\ ~IsValidOid(last.rq.user_id)
    /\ \E i \in 1..Len(users) : ~users[i].active

\* what a get_messages answer may hold, in the claim's words
TeamIds == {messages[i]._id : i \in {j \in 1..Len(messages) : messages[j].to = Team}}
BodyIds(body) == {body[k].id : k \in 1..Len(body)}
Ascending(body) ==
    \A k \in 1..(Len(body) - 1) : body[k].timestamp <= body[k + 1].timestamp
Conversation(body, me, peer) ==
    \A k \in 1..Len(body) :
        /\ body[k].to # Team
        /\ \/ body[k].from_id = me /\ body[k].to = peer
           \/ body[k].from_id = peer /\ body[k].to = me
        /\ \E i \in 1..Len(messages) : messages[i]._id = body[k].id

\* C10 (as claimed): get_messages("team") returns exactly the messages sent to
\* the team; get_messages(V) by U returns only messages between U and V; both
\* in ascending timestamp order.
C10_ChannelsExact ==
    (last.rq.op = "get_messages" /\ last.status = 200) =>
        /\ Ascending(last.body)
        /\ IF last.rq.channel = Team
           THEN BodyIds(last.body) = TeamIds
           ELSE Conversation(last.body, CallerOf(last.rq)._id, last.rq.channel)

\* C10 (amended): get_messages("team") returns only messages sent to the team:
\* all of them when they are at most 1000, and otherwise 1000 of them, none
\* later than one it leaves out; get_messages(V) by U returns only messages
\* between U and V; both in ascending timestamp order.
C10_ChannelsCapped ==
    (last.rq.op = "get_messages" /\ last.status = 200) =>
        LET body == last.body
            ids == BodyIds(body)
            team == TeamIds
        IN /\ Ascending(body)
           /\ Len(body) <= ListCap
           /\ IF last.rq.channel = Team
              THEN /\ ids \subseteq team
                   /\ Cardinality(ids) = Len(body)
                   /\ Cardinality(team) <= ListCap => ids = team
                   /\ Cardinality(team) > ListCap =>
                         /\ Len(body) = ListCap
                         /\ \A i \in 1..Len(messages) :
                               (messages[i].to = Team /\ messages[i]._id \notin ids)
                               => messages[i].timestamp >= body[Len(body)].timestamp
              ELSE Conversation(body, CallerOf(last.rq)._id, last.rq.channel)

\* C10 witness: a conversation read answered with both directions while the
\* store also holds a message of a third user to the caller
C10_Witness ==
    /\ last.rq.op = "get_messages"
    /\ last.rq.channel # Team
    /\ last.status = 200
    /\ \E k \in 1..Len(last.body) : last.body[k].from_id = last.rq.channel
    /\ \E k \in 1..Len(last.body) : last.body[k].to = last.rq.channel
    /\ \E i \in 1..Len(messages) :
          /\ messages[i].to = CallerOf(last.rq)._id
          /\ messages[i].from_id # last.rq.channel

\* C11 (as claimed): a photo is inserted only for a job that has a record at
\* the moment of the insert, and an upload_photo for an id with no job record
\* is answered 404 and stores nothing.
C11_PhotoJobExists ==
    [][/\ Len(photos') > Len(photos) =>
              HasJob(photos'[Len(photos')].job_id)
       /\ (/\ last'.rq.op = "upload_photo"
           /\ Resolved(last'.rq)
           /\ IsValidOid(last'.rq.job_id)
           /\ ~HasJob(last'.rq.job_id))
          => (last'.status = 404 /\ photos' = photos)]_vars

\* the id a request names, for the handlers that parse it with ObjectId
RequestId(rq) ==
    IF "timesheet_id" \in DOMAIN rq THEN rq.timesheet_id ELSE rq.job_id

\* C12 (as claimed): a get_job, update_job, delete_job, approve_timesheet or
\* upload_photo request that passes the handler's authentication and role test
\* and names an id that is not a well-formed ObjectId is answered 404.
C12_MalformedIdNotFound ==
    (/\ last.rq.op \in {"get_job", "update_job", "delete_job",
                        "approve_timesheet", "upload_photo"}
     /\ Resolved(last.rq)
     /\ last.rq.op = "delete_job" => IsAdmin(CallerOf(last.rq))
     /\ last.rq.op = "approve_timesheet" => IsElevated(CallerOf(last.rq))
     /\ ~IsValidOid(RequestId(last.rq)))
    => last.status = 404

\* the fields an update_job payload gives a value
PayloadFields(job_data) == {f \in DOMAIN job_data : job_data[f] # None}
\* the update_job requests whose write is done and whose answer is pending
Written == {s \in Slots : req[s].op = "update_job" /\ req[s].pc = "reread"}

\* C13: a step that changes a stored job is the write of an update_job on it
\* that sets the fields its payload gives (and completed_at only with a
\* payload status of completed) to the payload's values and leaves every
\* other field as it was; and when two update_job requests with payloads on
\* disjoint fields have both written, the job holds both payloads' values.
C13_PartialUpdate ==
    [][/\ \A i \in 1..Len(jobs), k \in 1..Len(jobs') :
             (jobs[i]._id = jobs'[k]._id /\ jobs[i] # jobs'[k]) =>
                \E s \in Slots :
                   /\ req[s].op = "update_job" /\ req[s].pc = "write"
                   /\ req'[s] = [req[s] EXCEPT !.pc = "reread"]
                   /\ req[s].job_id = jobs[i]._id
                   /\ DOMAIN req[s].update_data \ {"completed_at"}
                         = PayloadFields(req[s].job_data)
                   /\ "completed_at" \in DOMAIN req[s].update_data
                         => req[s].job_data.status = "completed"
                   /\ \A f \in DOMAIN jobs[i] :
                         jobs'[k][f] = IF f \in DOMAIN req[s].update_data
                                       THEN req[s].update_data[f]
                                       ELSE jobs[i][f]
       /\ \A s, r \in Slots, k \in 1..Len(jobs') :
             (/\ s # r
              /\ req'[s].op = "update_job" /\ req'[s].pc = "reread"
              /\ req'[r].op = "update_job" /\ req'[r].pc = "reread"
              /\ req'[s].job_id = jobs'[k]._id
              /\ req'[r].job_id = jobs'[k]._id
              /\ PayloadFields(req'[s].job_data)
                    \cap PayloadFields(req'[r].job_data) = {})
             => \A f \in PayloadFields(req'[s].job_data) :
                   jobs'[k][f] = req'[s].job_data[f]]_vars

\* C13 witness: two update_job requests with different payloads have both
\* written, and the job holds the status of one and the notes of the other
C13_Witness ==
    /\ Written = Slots
    /\ req[1].job_data # req[2].job_data
    /\ \E k \in 1..Len(jobs) :
          /\ jobs[k]._id = req[1].job_id
          /\ jobs[k]._id = req[2].job_id
          /\ jobs[k].status = "completed"
          /\ jobs[k].notes = "n2"

\* a clock string of the form HH:MM, H and M the digits 0 to 9, and its
\* minutes since midnight
WellFormed(str) ==
    /\ Len(str) = 5
    /\ str[3] = 58
    /\ \A i \in {1, 2, 4, 5} : str[i] \in 48..57
Minutes(str) ==
    (10 * (str[1] - 48) + (str[2] - 48)) * 60
        + 10 * (str[4] - 48) + (str[5] - 48)
\* a string that is not two integers with one colon between them in any
\* notation of integers: it has no colon or several, or a character that is
\* no digit, sign, underscore or whitespace, or no digit on a side of the
\* colon
Unparseable(str) ==
    LET colons == {i \in 1..Len(str) : str[i] = 58} IN
    \/ Cardinality(colons) # 1
    \/ \E i \in 1..Len(str) :
          ~IsDigit(str[i]) /\ str[i] \notin {43, 45, 95, 58} \cup Whitespace
    \/ \E c \in colons :
          \/ \A i \in 1..(c - 1) : ~IsDigit(str[i])
          \/ \A i \in (c + 1)..Len(str) : ~IsDigit(str[i])
\* the number of a short digit sequence, and the hundredths of an hour of a
\* stored total_hours
RECURSIVE DecimalValue(_)
DecimalValue(digits) ==
    IF digits = <<>> THEN 0
    ELSE 10 * DecimalValue(SubSeq(digits, 1, Len(digits) - 1))
            + digits[Len(digits)]
Hundredths(v) == IF v.neg THEN -DecimalValue(v.mag) ELSE DecimalValue(v.mag)
\* h hundredths of an hour is m minutes in hours, rounded to 2 decimal places
IsRounded(h, m) == 100 * m - 60 * h \in -30..30

\* C14: the total_hours of every stored timesheet is, for three HH:MM strings,
\* (finish - start - break minutes) / 60 rounded to 2 decimal places, and 0.0
\* when one of the three strings fails to parse as two integers with a colon
\* between them, be it that the string has not that form in any notation or
\* that str.split and int() reject it; a create_timesheet request of an
\* authenticated caller with string notes is answered 200 and stores that
\* value with the three strings, parse failure or not.
C14_TotalHours ==
    /\ \A i \in 1..Len(timesheets) :
          LET t == timesheets[i]
              clocks == {t.start_time, t.finish_time, t.break_time}
          IN /\ (\A c \in clocks : WellFormed(c)) =>
                   IsRounded(Hundredths(t.total_hours),
                             Minutes(t.finish_time) - Minutes(t.start_time)
                                - Minutes(t.break_time))
             /\ (\E c \in clocks : Unparseable(c) \/ ~hours_minutes(c).ok)
                   => t.total_hours = Zero
    /\ (/\ last.rq.op = "create_timesheet"
        /\ Resolved(last.rq)
        /\ last.rq.notes # None)
       => /\ last.status = 200
          /\ \E i \in 1..Len(timesheets) :
                /\ timesheets[i]._id = last.body.id
                /\ timesheets[i].total_hours = last.body.total_hours
                /\ timesheets[i].start_time = last.rq.start_time
                /\ timesheets[i].finish_time = last.rq.finish_time
                /\ timesheets[i].break_time = last.rq.break_time

\* C14 witness: the store holds a timesheet with 0.0 hours for a break,
\* "0x:00", that does not parse, and the request just answered 200 stored one
\* of ten minutes, 0.17 hours
C14_Witness ==
    /\ \E i \in 1..Len(timesheets) :
          /\ timesheets[i].break_time = <<48, 120, 58, 48, 48>>
          /\ timesheets[i].total_hours = Zero
    /\ last.rq.op = "create_timesheet"
    /\ last.status = 200
    /\ last.rq.start_time = Clock(9, 0)
    /\ last.rq.finish_time = Clock(9, 20)
    /\ last.rq.break_time = Clock(0, 10)
    /\ last.body.total_hours = [neg |-> FALSE, mag |-> <<1, 7>>]

\* the one position a request holds after a store write of its own: every
\* other write is answered in the step that makes it
HasWritten(rq) == rq.op = "update_job" /\ rq.pc = "reread"

\* C15: a step that answers a request with 400, 401, 403 or 404 leaves the
\* five collections as they were, and the request it answers had made no
\* write in an earlier step, so the request changed nothing from its start
\* to its answer.
C15_ErrorsChangeNothing ==
    [][last'.status \in {400, 401, 403, 404} =>
          (store' = store /\ ~HasWritten(last'.rq))]_vars

\* C15 witness: the approval of a timesheet that is already approved ran its
\* update_one and was answered 404
C15_Witness ==
    /\ last.rq.op = "approve_timesheet"
    /\ last.status = 404
    /\ \E i \in 1..Len(timesheets) :
          timesheets[i]._id = last.rq.timesheet_id /\ timesheets[i].approved

\* C16 (as claimed): an update_job with a payload that sets a field, which
\* found its job and passed the authorization test, is answered 200 or 404
\* when the job has been deleted before its answer.
C16_UpdateDeleteRace ==
    [][(/\ last'.rq.op = "update_job"
        /\ last'.rq.pc \in {"write", "reread"}
        /\ PayloadFields(last'.rq.job_data) # {}
        /\ ~HasJob(last'.rq.job_id))
       => last'.status \in {200, 404}]_vars

\* C17: every stored job with status completed has a completed_at that is
\* not null, and a step that inserts a job inserts it with status pending and
\* a null completed_at.
C17_CompletedHasTime ==
    [][/\ \A i \in 1..Len(jobs') :
             jobs'[i].status = "completed" => jobs'[i].completed_at # NoTime
       /\ Len(jobs') > Len(jobs) =>
             /\ jobs'[Len(jobs')].status = "pending"
             /\ jobs'[Len(jobs')].completed_at = NoTime]_vars

\* C17 witness: an update_job that set a completed job to active was answered
\* with its completion time kept, and another update_job has written status
\* completed again: the job is completed and holds a completion time
C17_Witness ==
    /\ last.rq.op = "update_job"
    /\ last.status = 200
    /\ last.rq.job_data.status = "active"
    /\ last.body.completed_at # NoTime
    /\ \E s \in Slots :
          /\ req[s].op = "update_job" /\ req[s].pc = "reread"
          /\ req[s].job_data.status = "completed"
          /\ \E i \in 1..Len(jobs) :
                /\ jobs[i]._id = req[s].job_id
                /\ jobs[i].status = "completed"
                /\ jobs[i].completed_at # NoTime
====
